---- MODULE Spec2Model ----
(***************************************************************************)
(* A model of geoh5.kea._keaio: the KEA image reader/writer                *)
(* (KeaImageRead, KeaImageReadWrite).  The container (an HDF5 file) is the *)
(* variable fid, the in-memory registry kept by the object is the         *)
(* variable reg.      Every public method is one action; the read methods, *)
(* which change nothing, are operators over fid and reg.                   *)
(***************************************************************************)
EXTENDS Integers, Sequences, FiniteSets, TLC

VARIABLES
    fid,      \* the container: HEADER/NUMBANDS, the band groups, the DATA datasets
    reg,      \* the registry of the object, as _read_kea builds it
    closed,   \* self._closed
    last,     \* the last call made: its name, band and window arguments, its error
    linkof,   \* history: the link argument each band was appended with
    written,  \* history: per DATA dataset and pixel, the value last written
    ratlog    \* history: per band, the tables write_rat was called with

vars == <<fid, reg, closed, last, linkof, written, ratlog>>

(***************************************************************************)
(* Bounds of the model.                                                    *)
(***************************************************************************)
MaxBands == 2
MaxTypedBands == 3
Height == 1
Width == 2
MaxVal == 1
MaxCols == 2
MaxRows == 2
MaxRatWrites == 2

(***************************************************************************)
(* Optional values: Python's None and a present value.                     *)
(***************************************************************************)
None == <<>>

Some(x) == <<x>>

(***************************************************************************)
(* Band storage types and numpy.promote_types on them.                     *)
(***************************************************************************)
DTypes ==
    {"int8", "int16", "int32", "int64",
     "uint8", "uint16", "uint32", "uint64", "float32", "float64"}

Kind(t) ==
    IF t \in {"int8", "int16", "int32", "int64"} THEN "i"
    ELSE IF t \in {"uint8", "uint16", "uint32", "uint64"} THEN "u"
    ELSE "f"

Bits(t) ==
    IF t \in {"int8", "uint8"} THEN 8
    ELSE IF t \in {"int16", "uint16"} THEN 16
    ELSE IF t \in {"int32", "uint32", "float32"} THEN 32
    ELSE 64

MkType(k, b) == CHOOSE t \in DTypes : Kind(t) = k /\ Bits(t) = b

MaxOf(a, b) == IF a >= b THEN a ELSE b

\* An integer type of ib bits joined with a float type of fb bits: float32
\* holds the integers of at most 16 bits, float64 is taken for the wider.
IntWithFloat(ib, fb) == IF ib <= 16 THEN MkType("f", fb) ELSE "float64"

\* An unsigned type of ub bits joined with a signed type of sb bits.
UnsignedWithSigned(ub, sb) ==
    IF sb > ub THEN MkType("i", sb)
    ELSE IF 2 * ub <= 64 THEN MkType("i", 2 * ub)
    ELSE "float64"

\* A promotion that lets the first operand win: what the fold would compute
\* were the running type never widened by a later band of a different kind.
promote_types_first(a, b) ==
    IF Kind(a) = Kind(b) THEN MkType(Kind(a), MaxOf(Bits(a), Bits(b))) ELSE a

promote_types(a, b) ==
    IF Kind(a) = Kind(b) THEN MkType(Kind(a), MaxOf(Bits(a), Bits(b)))
    ELSE IF Kind(a) = "f" THEN IntWithFloat(Bits(b), Bits(a))
    ELSE IF Kind(b) = "f" THEN IntWithFloat(Bits(a), Bits(b))
    ELSE IF Kind(a) = "u" THEN UnsignedWithSigned(Bits(a), Bits(b))
    ELSE UnsignedWithSigned(Bits(b), Bits(a))

\* dtype = dtypes[1]; for band in dtypes: dtype = promote_types(dtype, ...)
RECURSIVE FoldPromote(_, _, _)
FoldPromote(acc, dtypes, band) ==
    IF band > Len(dtypes) THEN acc
    ELSE FoldPromote(promote_types(acc, dtypes[band]), dtypes, band + 1)

\* _read_dtypes over the DATATYPE of every band, given as a sequence.
read_dtypes(dtypes) == FoldPromote(dtypes[1], dtypes, 1)

(***************************************************************************)
(* Image planes.  A plane is a function over Pix; a window is              *)
(* ((ystart, ystop), (xstart, xstop)), half-open, and the array read       *)
(* through a window is indexed from (0, 0).                                *)
(***************************************************************************)
Pix == (0 .. Height - 1) \X (0 .. Width - 1)

Vals == 0 .. MaxVal

Planes == [Pix -> Vals]

Windows ==
    {<<<<ys, ye>>, <<xs, xe>>>> :
        ys \in 0 .. Height, ye \in 0 .. Height, xs \in 0 .. Width, xe \in 0 .. Width}

InBounds(w) == w[1][1] <= w[1][2] /\ w[2][1] <= w[2][2]

\* window is None or Some(w): the index set of the array such a call handles.
WinPix(window) ==
    IF window = None THEN Pix
    ELSE (0 .. window[1][1][2] - window[1][1][1] - 1)
             \X (0 .. window[1][2][2] - window[1][2][1] - 1)

\* The position in the plane of index p of the windowed array.
Abs(window, p) ==
    IF window = None THEN p
    ELSE <<p[1] + window[1][1][1], p[2] + window[1][2][1]>>

\* dset[idx] (dset[:] when window is None)
GetSlice(arr, window) == [p \in WinPix(window) |-> arr[Abs(window, p)]]

InWindow(window, q) == \E p \in WinPix(window) : Abs(window, p) = q

Rel(window, q) == CHOOSE p \in WinPix(window) : Abs(window, p) = q

\* The values an element of declared type t holds: unsigned integers wrap.
Cast(v, t) == IF Kind(t) = "u" THEN v % (2 ^ Bits(t)) ELSE v

\* A write that forgets the window's origin and lands at the plane's.
SetSlice_unshifted(arr, window, data, t) ==
    [q \in Pix |-> IF q \in WinPix(window) THEN Cast(data[q], t) ELSE arr[q]]

\* dset[idx] = data (dset[:] = data when window is None), for a dataset of type t
SetSlice(arr, window, data, t) ==
    [q \in Pix |->
        IF InWindow(window, q) THEN Cast(data[Rel(window, q)], t) ELSE arr[q]]

(***************************************************************************)
(* The container.  fid.NUMBANDS is HEADER/NUMBANDS, fid.BAND[n] the group  *)
(* BAND{n}, fid.STORE[k] the pixels of the k-th DATA dataset created: the  *)
(* DATA entry of a band group names one of them, and two groups may name   *)
(* the same one (a hard link).                                             *)
(***************************************************************************)
RatCats == 0 .. 3

EmptyATT ==
    [SIZE |-> <<0, 0, 0, 0, 0>>,
     CHUNKSIZE |-> 0,
     DATA |-> [c \in RatCats |-> None],
     HEADER |-> [c \in RatCats |-> None]]

(***************************************************************************)
(* _prep_rat: the lookup, the column names and the row count of every      *)
(* band, from ATT/HEADER.                                                  *)
(***************************************************************************)
Sum4(s) == s[2] + s[3] + s[4] + s[5]

\* names = list(range(rat_fields.sum())); an unfilled place keeps its number
Placeholders(n) == [i \in 1 .. n |-> ToString(i - 1)]

\* The header records of the categories whose SIZE entry is positive, in
\* category order, each with its category.
RECURSIVE HeaderFields(_, _)
HeaderFields(att, cat) ==
    IF cat > 3 THEN <<>>
    ELSE IF att.SIZE[cat + 2] > 0
         THEN [i \in 1 .. Len(att.HEADER[cat][1]) |->
                  [cat |-> cat,
                   NAME |-> att.HEADER[cat][1][i].NAME,
                   INDEX |-> att.HEADER[cat][1][i].INDEX,
                   COLNUM |-> att.HEADER[cat][1][i].COLNUM]]
              \o HeaderFields(att, cat + 1)
         ELSE HeaderFields(att, cat + 1)

\* hdr[fname] of a category that SIZE counts but that has no records: KeyError
MissingHeader(att) ==
    \E cat \in RatCats : att.SIZE[cat + 2] > 0 /\ att.HEADER[cat] = None

\* rat_data[col_name] = (data[dname], col_idx, tbl_idx); names[tbl_idx] = col_name
RECURSIVE ApplyFields(_, _, _, _)
ApplyFields(fields, i, lookup, names) ==
    IF i > Len(fields) THEN [ok |-> TRUE, lookup |-> lookup, names |-> names]
    ELSE IF fields[i].COLNUM >= Len(names)
         THEN [ok |-> FALSE, lookup |-> lookup, names |-> names]
         ELSE ApplyFields(
                  fields, i + 1,
                  [n \in DOMAIN lookup \cup {fields[i].NAME} |->
                      IF n = fields[i].NAME
                      THEN [cat |-> fields[i].cat, idx |-> fields[i].INDEX,
                            tbl_idx |-> fields[i].COLNUM]
                      ELSE lookup[n]],
                  [names EXCEPT ![fields[i].COLNUM + 1] = fields[i].NAME])

prep_band(att) ==
    IF MissingHeader(att)
    THEN [ok |-> FALSE, lookup |-> <<>>, names |-> <<>>]
    ELSE ApplyFields(HeaderFields(att, 0), 1, <<>>, Placeholders(Sum4(att.SIZE)))

\* The bands are prepared in order; an error leaves the later ones out.
RECURSIVE prep_rat(_, _, _)
prep_rat(f, band, acc) ==
    IF band > f.NUMBANDS THEN acc
    ELSE LET r == prep_band(f.BAND[band].ATT)
         IN  IF ~r.ok THEN [acc EXCEPT !.ok = FALSE]
             ELSE prep_rat(f, band + 1,
                      [ok |-> TRUE,
                       rat_lookup |-> Append(acc.rat_lookup, r.lookup),
                       rat_column_names |-> Append(acc.rat_column_names, r.names),
                       rat_rows |-> Append(acc.rat_rows, f.BAND[band].ATT.SIZE[1])])

\* What _prep_rat raises, if anything: KeyError for the header records SIZE
\* counts but the group lacks, IndexError for names[tbl_idx] out of range.
prep_error(f) ==
    LET bad == {b \in 1 .. f.NUMBANDS : ~prep_band(f.BAND[b].ATT).ok}
    IN  IF bad = {} THEN ""
        ELSE IF MissingHeader(f.BAND[CHOOSE b \in bad : \A c \in bad : b <= c].ATT)
             THEN "KeyError" ELSE "IndexError"

(***************************************************************************)
(* _read_kea: the registry rebuilt from the container.                     *)
(***************************************************************************)
read_kea(f) ==
    LET n == f.NUMBANDS
        rat == prep_rat(f, 1,
                   [ok |-> TRUE, rat_lookup |-> <<>>, rat_column_names |-> <<>>,
                    rat_rows |-> <<>>])
        dts == [b \in 1 .. n |-> f.BAND[b].DATATYPE]
    IN  [count |-> n,
         band_datasets |-> [b \in 1 .. n |-> f.BAND[b].DATA],
         mask_datasets |-> [b \in 1 .. n |-> f.BAND[b].MASK # None],
         dtype |-> read_dtypes(dts),
         dtypes |-> dts,
         no_data |-> [b \in 1 .. n |-> f.BAND[b].NO_DATA_VAL],
         chunks |-> [b \in 1 .. n |-> f.CHUNKS[f.BAND[b].DATA]],
         metadata |-> f.METADATA,
         description |-> [b \in 1 .. n |-> f.BAND[b].DESCRIPTION],
         layer_useage |-> [b \in 1 .. n |-> f.BAND[b].LAYER_USAGE],
         layer_type |-> [b \in 1 .. n |-> f.BAND[b].LAYER_TYPE],
         rat_lookup |-> rat.rat_lookup,
         rat_column_names |-> rat.rat_column_names,
         rat_rows |-> rat.rat_rows,
         rat_ok |-> rat.ok]

(***************************************************************************)
(* add_image_band(dtype, no_data, link).  dtype is a name of KeaDataType,  *)
(* no_data and link are None or a value.                                   *)
(***************************************************************************)
\* chunks=(256, 256), on the scale of the model's image: one pixel a chunk
DefaultChunks == <<1, 1>>

\* band_name = 'Band {}'.format(band_num)
band_name(band_num) == "Band " \o ToString(band_num)

\* A new DATA dataset holds its fill value, no_data, or zero without one.
NewPlane(dtype, no_data) ==
    [p \in Pix |-> IF no_data = None THEN 0 ELSE Cast(no_data[1], dtype)]

\* What a plausible slip does instead of linking: a second dataset holding a
\* copy of the linked band's pixels.
add_band_group_copy(f, r, dtype, no_data, link) ==
    [NUMBANDS |-> r.count + 1,
     BAND |-> Append(f.BAND,
                  [DATA |-> Len(f.STORE) + 1,
                   MASK |-> None,
                   MASKCHUNKS |-> None,
                   DATATYPE |-> IF link = None THEN dtype ELSE r.dtypes[link[1]],
                   DESCRIPTION |-> "",
                   LAYER_TYPE |-> 0,
                   LAYER_USAGE |-> 0,
                   NO_DATA_VAL |-> no_data,
                   ATT |-> EmptyATT]),
     STORE |-> IF link = None
               THEN Append(f.STORE, NewPlane(dtype, no_data))
               ELSE Append(f.STORE, f.STORE[r.band_datasets[link[1]]]),
     CHUNKS |-> Append(f.CHUNKS, DefaultChunks),
     METADATA |-> Append(f.METADATA, band_name(r.count + 1))]

\* The group BAND{count + 1} and the storage after it is created.  With a
\* link the group's DATA is the linked band's dataset and its DATATYPE that
\* band's; the group has its own ATT, and its own NO_DATA_VAL if one is given.
add_band_group(f, r, dtype, no_data, link) ==
    LET grp == [DATA |-> IF link = None THEN Len(f.STORE) + 1
                         ELSE r.band_datasets[link[1]],
                MASK |-> None,
                MASKCHUNKS |-> None,
                DATATYPE |-> IF link = None THEN dtype ELSE r.dtypes[link[1]],
                DESCRIPTION |-> "",
                LAYER_TYPE |-> 0,
                LAYER_USAGE |-> 0,
                NO_DATA_VAL |-> no_data,
                ATT |-> EmptyATT]
    IN  [NUMBANDS |-> r.count + 1,
         BAND |-> Append(f.BAND, grp),
         STORE |-> IF link = None
                   THEN Append(f.STORE, NewPlane(dtype, no_data))
                   ELSE f.STORE,
         CHUNKS |-> IF link = None THEN Append(f.CHUNKS, DefaultChunks)
                    ELSE f.CHUNKS,
         METADATA |-> Append(f.METADATA, band_name(r.count + 1))]

\* What the call leaves of the container when it raises for a link to a band
\* that the registry does not have, had the group been created first.
link_rejected_late(f, r, dtype, no_data, link) ==
    [add_band_group(f, r, dtype, no_data, None) EXCEPT !.NUMBANDS = f.NUMBANDS]

\* The link is tested, and the TypeError raised, before create_group: the
\* container is as it was.
link_rejected(f, r, dtype, no_data, link) == f

\* What skipping the rebuild leaves in the registry.
resync_skipped(f, r) == r

\* self.flush(); self._read_kea(): the registry after a structural change
resync(f, r) == read_kea(f)

\* dtype='uint8' in the signature: the type of a band appended without one
NotGiven == "not given"

DefaultDType == "uint8"

dtype_arg(dtype) == IF dtype = NotGiven THEN DefaultDType ELSE dtype

Call(op, band, window, arg, err) ==
    [op |-> op, band |-> band, window |-> window, arg |-> arg, err |-> err]

Unwritten == [p \in Pix |-> None]

add_image_band(maxb, dts, nds, links) ==
    /\ reg.count < maxb
    /\ \E dtype \in dts, no_data \in nds, link \in links :
          IF link # None /\ link[1] \notin DOMAIN reg.band_datasets
          THEN /\ last' = Call("add_image_band", link, None, dtype, "TypeError")
               /\ fid' = link_rejected(fid, reg, dtype_arg(dtype), no_data, link)
               /\ UNCHANGED <<reg, closed, linkof, written, ratlog>>
          ELSE /\ fid' = add_band_group(fid, reg, dtype_arg(dtype), no_data, link)
               /\ reg' = resync(fid', reg)
               /\ linkof' = Append(linkof, link)
               /\ written' = [k \in 1 .. Len(fid'.STORE) |->
                                 IF k <= Len(written) THEN written[k] ELSE Unwritten]
               /\ ratlog' = Append(ratlog, <<>>)
               /\ last' = Call("add_image_band", link, None, dtype, prep_error(fid'))
               /\ UNCHANGED closed

(***************************************************************************)
(* The container as created with one band, and the object opened on it.    *)
(***************************************************************************)
NewFile(dtype, no_data, mask, plane) ==
    [NUMBANDS |-> 1,
     BAND |-> <<[DATA |-> 1, MASK |-> mask,
                 MASKCHUNKS |-> IF mask = None THEN None ELSE Some(DefaultChunks),
                 DATATYPE |-> dtype, DESCRIPTION |-> "", LAYER_TYPE |-> 0,
                 LAYER_USAGE |-> 0, NO_DATA_VAL |-> no_data, ATT |-> EmptyATT]>>,
     STORE |-> <<plane>>,
     CHUNKS |-> <<DefaultChunks>>,
     METADATA |-> <<band_name(1)>>]

InitWith(dts, nds, masks, planes) ==
    /\ \E dtype \in dts, no_data \in nds, mask \in masks, plane \in planes :
          fid = NewFile(dtype, no_data, mask, plane)
    /\ reg = read_kea(fid)
    /\ closed = FALSE
    /\ last = Call("open", None, None, None, "")
    /\ linkof = <<None>>
    /\ written = <<Unwritten>>
    /\ ratlog = <<<<>>>>

(***************************************************************************)
(* Type promotion: bands of every storage type are appended, each append   *)
(* rebuilding the registry and with it the promoted type.                  *)
(***************************************************************************)
LinkArgs(n) == {None} \cup {Some(k) : k \in 1 .. n}

ZeroPlane == [p \in Pix |-> 0]

InitPromote == InitWith(DTypes, {None}, {None}, {ZeroPlane})

NextPromote == add_image_band(MaxTypedBands, DTypes, {None}, LinkArgs(MaxTypedBands))

SpecPromote == InitPromote /\ [][NextPromote]_vars

Perms(n) == {f \in [1 .. n -> 1 .. n] : \A i, j \in 1 .. n : f[i] = f[j] => i = j}

Permuted(seq, f) == [i \in 1 .. Len(seq) |-> seq[f[i]]]

\* t widens into u without loss of kind or width: joining them gives u.
WidensTo(t, u) == promote_types(t, u) = u

\* C10 as stated: the promoted type of the registry is the one computed for
\* every permutation of the bands, is at least as wide as every band's type,
\* and is float32 for band 1 = uint8, band 2 = float32.
C10_PromotionOrderIndependent ==
    /\ \A f \in Perms(reg.count) : read_dtypes(Permuted(reg.dtypes, f)) = reg.dtype
    /\ \A b \in 1 .. reg.count : WidensTo(reg.dtypes[b], reg.dtype)
    /\ reg.dtypes = <<"uint8", "float32">> => reg.dtype = "float32"

\* C10 amended: the promoted type is the left fold of the pairwise promotion
\* over the bands in index order, starting from band 1; it is at least as wide
\* as every band's type; it is the same for every permutation of at most two
\* bands; and it is float32 for band 1 = uint8, band 2 = float32.
C10_PromotionFoldUpperBound ==
    /\ reg.dtype = FoldPromote(reg.dtypes[1], reg.dtypes, 2)
    /\ \A b \in 1 .. reg.count : WidensTo(reg.dtypes[b], reg.dtype)
    /\ reg.count <= 2 =>
          \A f \in Perms(reg.count) :
              read_dtypes(Permuted(reg.dtypes, f)) = reg.dtype
    /\ reg.dtypes = <<"uint8", "float32">> => reg.dtype = "float32"

\* Three bands whose promoted type depends on their order have been appended
\* and the registry rebuilt.
C10_Witness ==
    /\ last.op = "add_image_band"
    /\ last.err = ""
    /\ reg.dtypes = <<"int16", "uint16", "float32">>
    /\ reg.dtype = "float64"
    /\ read_dtypes(<<"int16", "float32", "uint16">>) = "float32"

(***************************************************************************)
(* The bands argument: None (every band), one band index, or a sequence of *)
(* band indices (the isinstance(bands, collections.Sequence) test).        *)
(***************************************************************************)
NoBands == [kind |-> "none", b |-> <<>>]

\* (b holds the index as a one-element sequence)
BandArg(b) == [kind |-> "int", b |-> <<b>>]

SeqArg(bs) == [kind |-> "seq", b |-> bs]

Range(seq) == {seq[i] : i \in DOMAIN seq}

Raise(e) == [err |-> e, val |-> None]

Return(v) == [err |-> "", val |-> v]

(***************************************************************************)
(* read(bands, window)                                                     *)
(***************************************************************************)
\* self._band_datasets[bands][idx]
read_int(f, r, band, window) ==
    IF band \notin DOMAIN r.band_datasets THEN Raise("KeyError")
    ELSE Return(GetSlice(f.STORE[r.band_datasets[band]], window))

\* read_direct of every band into an array of the promoted type
read_seq(f, r, bands, window) ==
    IF ~(Range(bands) \subseteq DOMAIN r.band_datasets) THEN Raise("KeyError")
    ELSE Return([i \in 1 .. Len(bands) |->
                    [p \in WinPix(window) |->
                        Cast(f.STORE[r.band_datasets[bands[i]]][Abs(window, p)],
                             r.dtype)]])

read(f, r, bands, window) ==
    IF bands.kind = "none" THEN read_seq(f, r, [b \in 1 .. r.count |-> b], window)
    ELSE IF bands.kind = "seq" THEN read_seq(f, r, bands.b, window)
    ELSE read_int(f, r, bands.b[1], window)

(***************************************************************************)
(* read_mask(bands, window)                                                *)
(***************************************************************************)
\* mask.fill(255): every element of the whole array, whatever its band
fill(mask, window, v) == [j \in 1 .. Len(mask) |-> [p \in WinPix(window) |-> v]]

\* (bdata != no_data) * 255
synthetic(bdata, window, no_data) ==
    [p \in WinPix(window) |-> IF bdata[p] # no_data THEN 255 ELSE 0]

\* for i, band in enumerate(bands): ... over mask = numpy.zeros((nb, ...))
RECURSIVE read_mask_loop(_, _, _, _, _, _)
read_mask_loop(f, r, bands, window, i, mask) ==
    IF i > Len(bands) THEN Return(mask)
    ELSE LET band == bands[i]
         IN  IF band \notin DOMAIN r.mask_datasets THEN Raise("KeyError")
             ELSE IF r.mask_datasets[band]
             THEN read_mask_loop(f, r, bands, window, i + 1,
                      [mask EXCEPT ![i] = GetSlice(f.BAND[band].MASK[1], window)])
             ELSE IF r.no_data[band] = None
             THEN read_mask_loop(f, r, bands, window, i + 1, fill(mask, window, 255))
             ELSE read_mask_loop(f, r, bands, window, i + 1,
                      [mask EXCEPT ![i] =
                          synthetic(read_int(f, r, band, window).val, window,
                                    r.no_data[band][1])])

read_mask_seq(f, r, bands, window) ==
    read_mask_loop(f, r, bands, window, 1,
                   [j \in 1 .. Len(bands) |-> [p \in WinPix(window) |-> 0]])

\* The branch for one band index.  It tests self._mask_datasets[band], and
\* the windowed branch no_data, which are locals of the function that only
\* the sequence branch assigns: band and no_data are their bindings on entry
\* to this branch, None when unbound.
read_mask_int(f, r, bands, window, band, no_data) ==
    IF band = None THEN Raise("UnboundLocalError")
    ELSE IF band[1] \notin DOMAIN r.mask_datasets THEN Raise("KeyError")
    ELSE IF r.mask_datasets[band[1]]
    THEN IF bands \notin DOMAIN r.mask_datasets THEN Raise("KeyError")
         ELSE Return(GetSlice(f.BAND[bands].MASK[1], window))
    ELSE IF window = None
    THEN IF r.no_data[band[1]] = None THEN Return([p \in Pix |-> 255])
         ELSE IF read_int(f, r, bands, window).err # "" THEN Raise("KeyError")
         ELSE Return(synthetic(read_int(f, r, bands, window).val, window,
                               r.no_data[band[1]][1]))
    ELSE IF no_data = None THEN Raise("UnboundLocalError")
    ELSE IF no_data[1] = None THEN Return([p \in WinPix(window) |-> 255])
    ELSE IF read_int(f, r, bands, window).err # "" THEN Raise("KeyError")
    ELSE Return(synthetic(read_int(f, r, bands, window).val, window, no_data[1][1]))

read_mask(f, r, bands, window) ==
    IF bands.kind = "none"
    THEN read_mask_seq(f, r, [b \in 1 .. r.count |-> b], window)
    ELSE IF bands.kind = "seq" THEN read_mask_seq(f, r, bands.b, window)
    ELSE read_mask_int(f, r, bands.b[1], window, None, None)

(***************************************************************************)
(* write(data, bands, window).  data is its number of dimensions and its   *)
(* planes: one plane for a 2D array, data.shape[0] planes for a 3D one.    *)
(***************************************************************************)
\* for i, band in enumerate(bands): dset = self._band_datasets[band];
\* dset[idx] = data[i]
RECURSIVE write_loop(_, _, _, _, _, _)
write_loop(f, r, planes, bands, window, i) ==
    IF i > Len(bands) THEN f
    ELSE write_loop(
             [f EXCEPT !.STORE[r.band_datasets[bands[i]]] =
                 SetSlice(@, window, planes[i], r.dtypes[bands[i]])],
             r, planes, bands, window, i + 1)

write_apply(f, r, data, bands, window) ==
    IF bands.kind = "seq"
    THEN IF ~(Range(bands.b) \subseteq DOMAIN r.band_datasets)
         THEN [err |-> "TypeError", fid |-> f]
         ELSE IF data.ndim # 3 THEN [err |-> "TypeError", fid |-> f]
         ELSE IF Len(data.planes) # Len(bands.b) THEN [err |-> "TypeError", fid |-> f]
         ELSE [err |-> "", fid |-> write_loop(f, r, data.planes, bands.b, window, 1)]
    ELSE IF bands.b[1] \notin DOMAIN r.band_datasets
         THEN [err |-> "TypeError", fid |-> f]
         ELSE [err |-> "", fid |-> write_loop(f, r, data.planes, bands.b, window, 1)]

BandsOf(bands) == bands.b

SetMax(S) == CHOOSE x \in S : \A y \in S : y <= x

\* History: the value each pixel of each DATA dataset was last written with.
Record(w, r, planes, bands, window) ==
    [k \in DOMAIN w |->
        [q \in Pix |->
            LET cover == {i \in 1 .. Len(bands) :
                             /\ r.band_datasets[bands[i]] = k
                             /\ q[1] >= Abs(window, <<0, 0>>)[1]
                             /\ q[2] >= Abs(window, <<0, 0>>)[2]
                             /\ <<q[1] - Abs(window, <<0, 0>>)[1],
                                  q[2] - Abs(window, <<0, 0>>)[2]>> \in WinPix(window)}
            IN  IF cover = {} THEN w[k][q]
                ELSE Some(planes[SetMax(cover)][<<q[1] - Abs(window, <<0, 0>>)[1],
                                                  q[2] - Abs(window, <<0, 0>>)[2]>>])]]

write_call(data, bands, window) ==
    LET res == write_apply(fid, reg, data, bands, window)
    IN  /\ fid' = res.fid
        /\ last' = Call("write", bands, window, None, res.err)
        /\ written' = IF res.err = ""
                      THEN Record(written, reg, data.planes, BandsOf(bands), window)
                      ELSE written
        /\ UNCHANGED <<reg, closed, linkof, ratlog>>

\* The arrays of the shape a call with these bands and this window takes.
Arrays(bands, window, vals, dtype) ==
    {[dtype |-> dtype,
      ndim |-> IF bands.kind = "seq" THEN 3 ELSE 2,
      planes |-> ps] :
        ps \in [1 .. Len(BandsOf(bands)) -> [WinPix(window) -> vals]]}

write(bandargs, windows) ==
    \E bands \in bandargs, window \in windows :
        \E data \in Arrays(bands, window, Vals, "uint8") : write_call(data, bands, window)

(***************************************************************************)
(* write_mask(data, bands, window)                                         *)
(***************************************************************************)
\* Full-overwrite semantics, which the method does not have.
paint_overwrite(old, d) == [q \in Pix |-> IF d[q] THEN 255 ELSE 0]

\* mdsets[band][data] = 255: the positions where data is True are written
paint(old, d) == [q \in Pix |-> IF d[q] THEN 255 ELSE old[q]]

\* mdsets[band][idx][data] = 255: mdsets[band][idx] reads the window into a new
\* array in memory, and it is that array the assignment paints; the dataset
\* keeps its values.
paint_window(old, window, d) == old

RECURSIVE write_mask_loop(_, _, _, _, _, _)
write_mask_loop(f, r, planes, bands, window, i) ==
    IF i > Len(bands) THEN [err |-> "", fid |-> f]
    ELSE IF ~r.mask_datasets[bands[i]] THEN [err |-> "TypeError", fid |-> f]
    ELSE write_mask_loop(
             [f EXCEPT !.BAND[bands[i]].MASK =
                 IF window = None THEN Some(paint(@[1], planes[i]))
                 ELSE Some(paint_window(@[1], window, planes[i]))],
             r, planes, bands, window, i + 1)

\* Validation after the loop, which the method does not have: the bands and
\* planes there are get painted before the call is refused.
write_mask_apply_lazy(f, r, data, bands, window) ==
    IF data.dtype # "bool" THEN [err |-> "TypeError", fid |-> f]
    ELSE IF /\ bands.kind = "seq"
            /\ \/ ~(Range(bands.b) \subseteq DOMAIN r.band_datasets)
               \/ data.ndim # 3
               \/ Len(data.planes) # Len(bands.b)
    THEN LET n == CHOOSE k \in 0 .. Len(bands.b) :
                      /\ k <= Len(data.planes)
                      /\ \A i \in 1 .. k : bands.b[i] \in DOMAIN r.band_datasets
                      /\ \A j \in (k + 1) .. Len(bands.b) :
                             \/ j > Len(data.planes)
                             \/ \E i \in 1 .. j : bands.b[i] \notin DOMAIN r.band_datasets
         IN  [err |-> "TypeError",
              fid |-> write_mask_loop(f, r, data.planes, SubSeq(bands.b, 1, n),
                                      window, 1).fid]
    ELSE IF bands.kind # "seq" /\ bands.b[1] \notin DOMAIN r.band_datasets
    THEN [err |-> "TypeError", fid |-> f]
    ELSE write_mask_loop(f, r, data.planes, bands.b, window, 1)

write_mask_apply(f, r, data, bands, window) ==
    IF data.dtype # "bool" THEN [err |-> "TypeError", fid |-> f]
    ELSE IF bands.kind = "seq"
    THEN IF ~(Range(bands.b) \subseteq DOMAIN r.band_datasets)
         THEN [err |-> "TypeError", fid |-> f]
         ELSE IF data.ndim # 3 THEN [err |-> "TypeError", fid |-> f]
         ELSE IF Len(data.planes) # Len(bands.b) THEN [err |-> "TypeError", fid |-> f]
         ELSE write_mask_loop(f, r, data.planes, bands.b, window, 1)
    ELSE IF bands.b[1] \notin DOMAIN r.band_datasets
         THEN [err |-> "TypeError", fid |-> f]
         ELSE write_mask_loop(f, r, data.planes, bands.b, window, 1)

write_mask_call(data, bands, window) ==
    LET res == write_mask_apply(fid, reg, data, bands, window)
    IN  /\ fid' = res.fid
        /\ last' = Call("write_mask", bands, window, None, res.err)
        /\ UNCHANGED <<reg, closed, linkof, written, ratlog>>

write_mask(bandargs, windows) ==
    \E bands \in bandargs, window \in windows :
        \E data \in Arrays(bands, window, BOOLEAN, "bool") : write_mask_call(data, bands, window)

(***************************************************************************)
(* create_mask_dataset(band)                                               *)
(***************************************************************************)
create_mask_dataset(bandset) ==
    \E band \in bandset :
        IF band \notin DOMAIN reg.band_datasets
        THEN /\ last' = Call("create_mask_dataset", BandArg(band), None, None, "TypeError")
             /\ UNCHANGED <<fid, reg, closed, linkof, written, ratlog>>
        ELSE IF reg.mask_datasets[band]
        THEN /\ last' = Call("create_mask_dataset", BandArg(band), None, None, "warning")
             /\ UNCHANGED <<fid, reg, closed, linkof, written, ratlog>>
        ELSE /\ fid' = [fid EXCEPT !.BAND[band].MASK = Some([p \in Pix |-> 0]),
                                   !.BAND[band].MASKCHUNKS = Some(reg.chunks[band])]
             /\ reg' = resync(fid', reg)
             /\ last' = Call("create_mask_dataset", BandArg(band), None, None,
                             prep_error(fid'))
             /\ UNCHANGED <<closed, linkof, written, ratlog>>

(***************************************************************************)
(* The arguments the calls are made with.                                  *)
(***************************************************************************)
BandIdx == 1 .. MaxBands

BandSeqs == UNION {[1 .. n -> BandIdx] : n \in 1 .. MaxBands}

BandArgs == {BandArg(b) : b \in BandIdx} \cup {SeqArg(bs) : bs \in BandSeqs}

\* None and the windows in bounds that hold a pixel.
WindowArgs ==
    {None} \cup
    {Some(w) : w \in {v \in Windows : v[1][1] < v[1][2] /\ v[2][1] < v[2][2]}}

(***************************************************************************)
(* Pixel data: bands are appended, linked or not, and written through      *)
(* every band selection and window.                                        *)
(***************************************************************************)
InitData == InitWith({"uint8"}, {None}, {None}, {ZeroPlane})

NextData ==
    \/ add_image_band(MaxBands, {"uint8"}, {None}, LinkArgs(MaxBands))
    \/ write(BandArgs, WindowArgs)

SpecData == InitData /\ [][NextData]_vars

\* C7: read(bands=b) right after write(d, bands=b) with no window returns d,
\* and in every state read(bands=b) returns, at each pixel that a write has
\* covered, the value of the most recent write covering that pixel of b's
\* storage.
C7_ReadReturnsLastWrite ==
    /\ [](\A b \in 1 .. reg.count : \A q \in Pix :
             written[reg.band_datasets[b]][q] # None =>
                 /\ read(fid, reg, BandArg(b), None).err = ""
                 /\ read(fid, reg, BandArg(b), None).val[q]
                        = written[reg.band_datasets[b]][q][1])
    /\ [][\A b \in BandIdx : \A d \in Arrays(BandArg(b), None, Vals, "uint8") :
             (last'.band = BandArg(b) /\ write_call(d, BandArg(b), None)
                 /\ last'.err = "") =>
                 read(fid', reg', BandArg(b), None) = Return(d.planes[1])]_vars

\* A whole-plane write to one band has succeeded and a windowed write has
\* since replaced part of what it wrote.
C7_Witness ==
    /\ last.op = "write"
    /\ last.err = ""
    /\ last.band = BandArg(1)
    /\ last.window = Some(<<<<0, 1>>, <<1, 2>>>>)
    /\ written[1] = [q \in Pix |-> IF q = <<0, 0>> THEN Some(1) ELSE Some(0)]
    /\ read(fid, reg, BandArg(1), None).val = [q \in Pix |-> IF q = <<0, 0>> THEN 1 ELSE 0]

\* C8: once band n has been appended with link=k, read(bands=n) equals
\* read(bands=k) in every state, for the whole plane and every window, and a
\* write through either band is what a read through the other returns.
C8_AliasingBidirectional ==
    /\ [](\A n \in 1 .. reg.count :
             linkof[n] # None =>
                 \A w \in WindowArgs :
                     /\ read(fid, reg, BandArg(n), w).err = ""
                     /\ read(fid, reg, BandArg(n), w)
                            = read(fid, reg, BandArg(linkof[n][1]), w))
    /\ [][\A n \in 1 .. reg.count :
             linkof[n] # None =>
                 \A w \in WindowArgs : \A d \in Arrays(BandArg(n), w, Vals, "uint8") :
                     /\ (last'.band = BandArg(n) /\ write_call(d, BandArg(n), w)) =>
                            read(fid', reg', BandArg(linkof[n][1]), w) = Return(d.planes[1])
                     /\ (last'.band = BandArg(linkof[n][1])
                            /\ write_call(d, BandArg(linkof[n][1]), w)) =>
                            read(fid', reg', BandArg(n), w) = Return(d.planes[1])]_vars

\* Band 2 is a link to band 1, and a windowed write through band 2 is read
\* back through band 1.
C8_Witness ==
    /\ reg.count = 2
    /\ linkof[2] = Some(1)
    /\ last.op = "write"
    /\ last.err = ""
    /\ last.band = BandArg(2)
    /\ last.window = Some(<<<<0, 1>>, <<1, 2>>>>)
    /\ read(fid, reg, BandArg(1), None).val[<<0, 1>>] = 1

(***************************************************************************)
(* Masks: a container opened on any pixels, with or without a sentinel;    *)
(* bands are appended, masks created and painted.                          *)
(***************************************************************************)
Sentinels == {None, Some(0)}

InitMask == InitWith({"uint8"}, Sentinels, {None}, Planes)

NextMask ==
    \/ add_image_band(MaxBands, {"uint8"}, Sentinels, {None})
    \/ create_mask_dataset(BandIdx)
    \/ write_mask(BandArgs, WindowArgs)

SpecMask == InitMask /\ [][NextMask]_vars

\* The mask of one band over a window, as the mask rule gives it: the stored
\* mask if the band has one, else 255 where the pixel differs from the
\* sentinel, else 255 everywhere.
BandMask(b, window) ==
    [p \in WinPix(window) |->
        IF fid.BAND[b].MASK # None THEN fid.BAND[b].MASK[1][Abs(window, p)]
        ELSE IF fid.BAND[b].NO_DATA_VAL = None THEN 255
        ELSE IF fid.STORE[fid.BAND[b].DATA][Abs(window, p)] # fid.BAND[b].NO_DATA_VAL[1]
             THEN 255
             ELSE 0]

\* C3: for every band without a mask area, read_mask(bands=b), whole plane or
\* windowed, returns the 2D array that is 255 everywhere without a sentinel
\* and 255 exactly where the pixel differs from the sentinel with one.
C3_SingleBandMaskSynthesis ==
    \A b \in 1 .. reg.count :
        fid.BAND[b].MASK = None =>
            \A w \in WindowArgs :
                read_mask(fid, reg, BandArg(b), w) = Return(BandMask(b, w))

\* C4: plane i of read_mask(bands=seq) is the mask of band seq[i] alone,
\* whatever the other bands of the sequence are.
C4_SequenceMaskPerBand ==
    \A bs \in BandSeqs :
        Range(bs) \subseteq 1 .. reg.count =>
            \A w \in WindowArgs :
                /\ read_mask(fid, reg, SeqArg(bs), w).err = ""
                /\ \A i \in 1 .. Len(bs) :
                       read_mask(fid, reg, SeqArg(bs), w).val[i] = BandMask(bs[i], w)

\* C5: after write_mask(d, b, window=w) on a band with a mask area the stored
\* mask is 255 at the window positions where d is true and as before
\* elsewhere, and reading the band's mask over w shows it (read here through
\* the one-band sequence [b]).
C5_WindowedMaskWritePaints ==
    [][\A b \in 1 .. reg.count :
          fid.BAND[b].MASK # None =>
              \A w \in WindowArgs \ {None} :
                  \A d \in Arrays(BandArg(b), w, BOOLEAN, "bool") :
                      (last'.band = BandArg(b) /\ write_mask_call(d, BandArg(b), w)) =>
                          /\ fid'.BAND[b].MASK[1] =
                                 [q \in Pix |->
                                     IF InWindow(w, q) /\ d.planes[1][Rel(w, q)]
                                     THEN 255
                                     ELSE fid.BAND[b].MASK[1][q]]
                          /\ \A p \in WinPix(w) :
                                 d.planes[1][p] =>
                                     read_mask(fid', reg', SeqArg(<<b>>), w).val[1][p] = 255]_vars

ColNames == {"a", "b"}

RatDTypes == {"bool", "int32", "float64", "object"}

Schemas(ncols) ==
    UNION {{s \in [1 .. n -> [name : ColNames, dtype : RatDTypes]] :
               \A i, j \in 1 .. n : s[i].name = s[j].name => i = j} :
           n \in ncols}

Tables(k, ncols, nrows) ==
    {[k |-> k, nrows |-> n, cols |-> s] : n \in nrows, s \in Schemas(ncols)}

ColumnNames(T) == {T.cols[i].name : i \in DOMAIN T.cols}

Values(T, name) == [row \in 1 .. T.nrows |-> <<T.k, name, row>>]

\* NumpyRatTypes[dtype.upper()].value: the category of a column type
NumpyRatTypes(dtype) ==
    CASE dtype = "bool" -> 0
      [] dtype \in {"int8", "int16", "int32", "int64",
                    "uint8", "uint16", "uint32", "uint64"} -> 1
      [] dtype \in {"float32", "float64"} -> 2
      [] dtype = "object" -> 3

\* ConvertRatDataType[category]: the type a category is stored as
ConvertRatDataType(cat) ==
    CASE cat = 0 -> "bool" [] cat = 1 -> "int64" [] cat = 2 -> "float64"
      [] cat = 3 -> "str"

\* dataframe[col]: a column of the table, with its type
Column(T, col) ==
    [dtype |-> T.cols[CHOOSE i \in DOMAIN T.cols : T.cols[i].name = col].dtype,
     vals |-> Values(T, col)]

\* values.astype(out_dtype): the column retyped; a marker stands for a value
\* of the column's own type, which its category's wider type holds unchanged
astype(column, out_dtype) == [dtype |-> out_dtype, vals |-> column.vals]

\* datatypes[dvalue]: the columns of a category, in the table's column order
datatypes(T, cat) ==
    LET InCat(c) == NumpyRatTypes(c.dtype) = cat
    IN  SelectSeq(T.cols, InCat)

\* columns.get_loc(col)
get_loc(T, col) == (CHOOSE i \in DOMAIN T.cols : T.cols[i].name = col) - 1

\* usage, filled with 'Generic' for the columns it does not name
usage_of(T, usage, col) ==
    IF usage # None /\ col \in DOMAIN usage[1] THEN usage[1][col] ELSE "Generic"

\* What a plausible slip records instead: the column's place in its category.
header_record_local(T, usage, idx, col) ==
    [NAME |-> col, INDEX |-> idx, USAGE |-> usage_of(T, usage, col),
     COLNUM |-> idx]

\* hdr_data[idx] = (NAME, INDEX, USAGE, COLNUM)
header_record(T, usage, idx, col) ==
    [NAME |-> col, INDEX |-> idx, USAGE |-> usage_of(T, usage, col),
     COLNUM |-> get_loc(T, col)]

(***************************************************************************)
(* write_rat(dataframe, band, usage, chunksize).  The header's CHUNKSIZE   *)
(* and SIZE are written first, then one DATA dataset and one HEADER        *)
(* dataset per category that has columns.  create_dataset under a name     *)
(* that exists raises, and what was written before it stays written.       *)
(***************************************************************************)
DefaultChunksize == 1000

\* self._band_groups[band]
band_group_of_dataset(r, band) == r.band_datasets[band]

band_group(r, band) == band

\* The DATA dataset of a category: one retyped column per column of it.
rat_dataset(T, cat) ==
    LET cols == datatypes(T, cat)
    IN  [nrows |-> T.nrows,
         cols |-> [i \in 1 .. Len(cols) |->
                      astype(Column(T, cols[i].name), ConvertRatDataType(cat))]]

\* What a plausible slip records as INDEX: the column's place in the table.
rat_fields_global(T, usage, cat) ==
    LET cols == datatypes(T, cat)
    IN  [i \in 1 .. Len(cols) |->
            header_record(T, usage, get_loc(T, cols[i].name), cols[i].name)]

rat_fields(T, usage, cat) ==
    LET cols == datatypes(T, cat)
    IN  [i \in 1 .. Len(cols) |-> header_record(T, usage, i - 1, cols[i].name)]

RECURSIVE create_datasets(_, _, _, _)
create_datasets(att, T, usage, cat) ==
    IF cat > 3 THEN [err |-> "", att |-> att]
    ELSE IF datatypes(T, cat) = <<>> THEN create_datasets(att, T, usage, cat + 1)
    ELSE IF att.DATA[cat] # None THEN [err |-> "ValueError", att |-> att]
    ELSE LET att1 == [att EXCEPT !.DATA[cat] = Some(rat_dataset(T, cat))]
         IN  IF att.HEADER[cat] # None
             THEN [err |-> "ValueError", att |-> att1]
             ELSE create_datasets(
                      [att1 EXCEPT !.HEADER[cat] = Some(rat_fields(T, usage, cat))],
                      T, usage, cat + 1)

write_rat_apply(f, r, T, band, usage, chunksize) ==
    IF band \notin 1 .. r.count THEN [err |-> "TypeError", fid |-> f]
    ELSE IF usage # None /\ ~(DOMAIN usage[1] \subseteq ColumnNames(T))
    THEN [err |-> "IndexError", fid |-> f]
    ELSE LET g == band_group(r, band)
             att0 == [f.BAND[g].ATT EXCEPT
                         !.CHUNKSIZE = IF T.nrows < chunksize THEN T.nrows
                                       ELSE chunksize,
                         !.SIZE = <<T.nrows,
                                    Len(datatypes(T, 0)), Len(datatypes(T, 1)),
                                    Len(datatypes(T, 2)), Len(datatypes(T, 3))>>]
             res == create_datasets(att0, T, usage, 0)
         IN  [err |-> res.err, fid |-> [f EXCEPT !.BAND[g].ATT = res.att]]

\* The number of write_rat calls made on the file's bands so far.
RECURSIVE RatWrites(_, _)
RatWrites(log, b) == IF b > Len(log) THEN 0 ELSE Len(log[b]) + RatWrites(log, b + 1)

write_rat_call(T, band, usage, chunksize) ==
    LET res == write_rat_apply(fid, reg, T, band, usage, chunksize)
    IN  /\ fid' = res.fid
        /\ reg' = IF res.err = "" THEN resync(fid', reg) ELSE reg
        /\ last' = Call("write_rat", BandArg(band), None, None,
                        IF res.err # "" THEN res.err ELSE prep_error(fid'))
        /\ ratlog' = IF band \in DOMAIN ratlog
                     THEN [ratlog EXCEPT ![band] =
                              Append(@, [T |-> T, err |-> last'.err])]
                     ELSE ratlog
        /\ UNCHANGED <<closed, linkof, written>>

write_rat(bandset, ncols, nrows, usages, maxwrites) ==
    /\ RatWrites(ratlog, 1) < maxwrites
    /\ \E band \in bandset, usage \in usages,
          T \in Tables(RatWrites(ratlog, 1) + 1, ncols, nrows) :
          write_rat_call(T, band, usage, DefaultChunksize)

(***************************************************************************)
(* read_rat(band, columns, row_start, row_end).  columns, row_end are None *)
(* or a value.  The result is the DataFrame: its columns in order, each    *)
(* with its values, or marked missing when the frame has a column name     *)
(* that no data was read for.                                              *)
(***************************************************************************)
\* dset[row_start:row_end, idx]
rat_slice(f, band, entry, row_start, row_end) ==
    LET column == f.BAND[band].ATT.DATA[entry.cat][1].cols[entry.idx + 1]
        n == Len(column.vals)
        stop == IF row_end = None THEN n
                ELSE IF row_end[1] < n THEN row_end[1] ELSE n
    IN  [dtype |-> column.dtype, vals |-> SubSeq(column.vals, row_start + 1, stop)]

\* pandas.DataFrame(data, columns=col_names), data keyed by the names read
DataFrame(f, band, rat, data, col_names, row_start, row_end) ==
    [i \in 1 .. Len(col_names) |->
        IF col_names[i] \in data
        THEN [name |-> col_names[i], missing |-> FALSE,
              vals |-> rat_slice(f, band, rat[col_names[i]], row_start, row_end).vals]
        ELSE [name |-> col_names[i], missing |-> TRUE, vals |-> <<>>]]

read_rat(f, r, band, columns, row_start, row_end) ==
    IF band \notin 1 .. r.count THEN Raise("IndexError")
    ELSE IF band \notin DOMAIN r.rat_lookup THEN Raise("KeyError")
    ELSE LET rat == r.rat_lookup[band]
             valid_cols == r.rat_column_names[band]
         IN  IF columns = None
             THEN IF DOMAIN rat = {} THEN Raise("UnboundLocalError")
                  ELSE Return(DataFrame(f, band, rat, DOMAIN rat, valid_cols,
                                        row_start, row_end))
             ELSE IF ~(Range(columns[1]) \subseteq Range(valid_cols))
             THEN Raise("IndexError")
             ELSE IF ~(Range(columns[1]) \subseteq DOMAIN rat) THEN Raise("KeyError")
             ELSE Return(DataFrame(
                      f, band, rat, Range(columns[1]),
                      [i \in 1 .. Len(columns[1]) |->
                          valid_cols[rat[columns[1][i]].tbl_idx + 1]],
                      row_start, row_end))

(***************************************************************************)
(* Attribute tables: bands are appended, linked or not, and tables of one  *)
(* or more columns and rows are written to them.                           *)
(***************************************************************************)
InitRat == InitWith({"uint8"}, {None}, {None}, {ZeroPlane})

NextRat ==
    \/ add_image_band(MaxBands, {"uint8"}, {None}, LinkArgs(MaxBands))
    \/ write_rat(BandIdx, 1 .. MaxCols, 1 .. MaxRows, {None}, MaxRatWrites)

SpecRat == InitRat /\ [][NextRat]_vars

\* The lists of a table's column names without repetition, the empty one too.
ColumnLists(T) ==
    UNION {{C \in [1 .. n -> ColumnNames(T)] :
               \A i, j \in 1 .. n : C[i] = C[j] => i = j} :
           n \in 0 .. Len(T.cols)}

RowRanges(T) == {w \in (0 .. T.nrows) \X (0 .. T.nrows) : w[1] <= w[2]}

AllColumns(T) == [i \in 1 .. Len(T.cols) |-> T.cols[i].name]

\* The frame holding the columns C of T, rows [i, j).
Frame(T, C, i, j) ==
    [m \in 1 .. Len(C) |->
        [name |-> C[m], missing |-> FALSE, vals |-> SubSeq(Values(T, C[m]), i + 1, j)]]

\* The registry is the one a rebuild from the container would give.
Current == reg = read_kea(fid) /\ reg.rat_ok

\* The table of the write_rat call a step has just made on band b.
Written(b) == ratlog'[b][Len(ratlog'[b])].T

C2_RatOverwriteReplaces ==
    [][\A b \in BandIdx :
          (/\ last'.op = "write_rat"
           /\ last'.band = BandArg(b)
           /\ b \in 1 .. reg.count
           /\ Len(ratlog[b]) = 1
           /\ ratlog[b][1].err = "")
          => /\ last'.err = ""
             /\ reg'.rat_rows[b] = Written(b).nrows
             /\ reg'.rat_column_names[b] = AllColumns(Written(b))
             /\ read_rat(fid', reg', b, None, 0, None)
                    = Return(Frame(Written(b), AllColumns(Written(b)), 0,
                                   Written(b).nrows))]_vars

\* What the calls show of a band's table: its lookup, names and row count in
\* the registry and the frame read_rat gives for it.
RatView(f, r, c) ==
    IF c \in DOMAIN r.rat_lookup
    THEN <<r.rat_lookup[c], r.rat_column_names[c], r.rat_rows[c],
           read_rat(f, r, c, None, 0, None)>>
    ELSE <<>>

\* C9: write_rat on band b, whether it returns or raises, changes no other
\* band's attribute table group, no band's pixel data and no band's mask,
\* bands that share their pixel storage included; and when the registry is
\* current no other band's table as the registry and read_rat show it.
C9_RatWriteIsBandLocal ==
    [][\A b \in BandIdx :
          (last'.op = "write_rat" /\ last'.band = BandArg(b))
          => /\ fid'.STORE = fid.STORE
             /\ fid'.NUMBANDS = fid.NUMBANDS
             /\ \A c \in 1 .. fid.NUMBANDS :
                   /\ fid'.BAND[c].DATA = fid.BAND[c].DATA
                   /\ fid'.BAND[c].MASK = fid.BAND[c].MASK
                   /\ read(fid', reg', BandArg(c), None) = read(fid, reg, BandArg(c), None)
                   /\ read_mask(fid', reg', SeqArg(<<c>>), None)
                          = read_mask(fid, reg, SeqArg(<<c>>), None)
                   /\ c # b => fid'.BAND[c].ATT = fid.BAND[c].ATT
                   /\ (c # b /\ Current) => RatView(fid', reg', c) = RatView(fid, reg, c)]_vars

\* Two bands on one pixel dataset, each given its own table: each reads back
\* its own.
C9_Witness ==
    /\ reg.count = 2
    /\ linkof[2] = Some(1)
    /\ reg.band_datasets[1] = reg.band_datasets[2]
    /\ last = Call("write_rat", BandArg(1), None, None, "")
    /\ Len(ratlog[1]) = 1 /\ Len(ratlog[2]) = 1
    /\ ratlog[1][1].T.cols # ratlog[2][1].T.cols
    /\ \A c \in 1 .. 2 :
          read_rat(fid, reg, c, None, 0, None)
              = Return(Frame(ratlog[c][1].T, AllColumns(ratlog[c][1].T), 0,
                             ratlog[c][1].T.nrows))

(***************************************************************************)
(* Appending without a type: bands of every storage type are appended,     *)
(* with the type given or left out, linked or not.                         *)
(***************************************************************************)
InitDefault == InitWith(DTypes, {None}, {None}, {ZeroPlane})

NextDefault ==
    add_image_band(MaxTypedBands, DTypes \cup {NotGiven}, {None},
                   LinkArgs(MaxTypedBands))

SpecDefault == InitDefault /\ [][NextDefault]_vars

\* C11: a band appended by add_image_band without a type and without a link
\* is declared with the promoted type the container had before the call, and
\* the promoted type is the same after the call.
C11_AppendedBandDefaultType ==
    [][(/\ last'.op = "add_image_band"
        /\ last'.arg = NotGiven
        /\ last'.band = None
        /\ last'.err = "")
       => /\ reg'.dtypes[reg'.count] = reg.dtype
          /\ reg'.dtype = reg.dtype]_vars

\* The key sets of the registry's per-band mappings.
RegistryKeys(r) ==
    {DOMAIN r.band_datasets, DOMAIN r.mask_datasets, DOMAIN r.dtypes,
     DOMAIN r.no_data, DOMAIN r.chunks, DOMAIN r.description,
     DOMAIN r.layer_useage, DOMAIN r.layer_type, DOMAIN r.rat_column_names,
     DOMAIN r.rat_rows}

\* C12: in every state every per-band mapping of the registry has exactly
\* the keys 1..count; an add_image_band call that returns creates band
\* count + 1 and raises count by one; no other call changes count.
C12_BandIndicesSequential ==
    /\ [](RegistryKeys(reg) = {1 .. reg.count})
    /\ [][(last'.op = "add_image_band" /\ last'.err = "")
          => /\ reg'.count = reg.count + 1
             /\ fid'.NUMBANDS = reg'.count
             /\ Len(fid'.BAND) = Len(fid.BAND) + 1]_vars
    /\ [][last'.op # "add_image_band" => reg'.count = reg.count]_vars

\* C13: add_image_band(link=k) with k outside 1..count raises TypeError and
\* leaves the container (the band count, every band's group with its data,
\* mask and attribute table, the band names) and the registry as they were.
C13_LinkToMissingBandFailsCleanly ==
    [][(/\ last'.op = "add_image_band"
        /\ last'.band # None
        /\ last'.band[1] \notin 1 .. reg.count)
       => /\ last'.err = "TypeError"
          /\ fid' = fid
          /\ reg' = reg]_vars

\* A link to band 2 was asked of a container of one band that has an
\* attribute table, and was refused.
C13_Witness ==
    /\ last.op = "add_image_band"
    /\ last.band = Some(2)
    /\ last.err = "TypeError"
    /\ reg.count = 1
    /\ reg.rat_rows[1] > 0
    /\ fid.NUMBANDS = 1
    /\ Len(fid.BAND) = 1

(***************************************************************************)
(* Structural changes: bands are appended, masks created and tables        *)
(* written, in any order.                                                  *)
(***************************************************************************)
InitSync == InitWith({"uint8"}, {None}, {None}, {ZeroPlane})

NextSync ==
    \/ add_image_band(MaxBands, {"uint8"}, {None}, LinkArgs(MaxBands))
    \/ create_mask_dataset(BandIdx)
    \/ write_rat(BandIdx, 1 .. MaxCols, {MaxRows}, {None}, MaxRatWrites)

SpecSync == InitSync /\ [][NextSync]_vars

\* No write_rat call so far has raised.
AllCompleted == \A b \in DOMAIN ratlog : \A i \in DOMAIN ratlog[b] : ratlog[b][i].err = ""

\* C14: when add_image_band, create_mask_dataset (creating a mask) or
\* write_rat returns, the registry is what a fresh open of the container as
\* the call left it computes; and after any sequence of calls that all
\* completed, every registry entry (count, data and mask handles, types,
\* no_data, chunks, description, layer type and usage, the tables' column
\* names and row counts) is what a fresh open computes.
C14_RegistrySynchronized ==
    /\ [][(/\ last'.op \in {"add_image_band", "create_mask_dataset", "write_rat"}
           /\ last'.err = "")
          => /\ fid' # fid
             /\ reg' = read_kea(fid')]_vars
    /\ [](AllCompleted => (reg = read_kea(fid) /\ reg.rat_ok))

\* A second band, a mask and a table, the table written last.
C14_Witness ==
    /\ last.op = "write_rat"
    /\ last.err = ""
    /\ AllCompleted
    /\ reg.count = 2
    /\ \E b \in 1 .. 2 : reg.mask_datasets[b]
    /\ \E b \in 1 .. 2 : reg.rat_rows[b] = MaxRows /\ reg.rat_column_names[b] # <<>>
    /\ reg = read_kea(fid)

(***************************************************************************)
(* close(), and the calls made on a closed object.  close() of the         *)
(* read-write class flushes, sets _closed and closes the file; the         *)
(* registry keeps its handles.  A handle of a closed file raises           *)
(* ValueError when it is read, written or asked for a member; what a       *)
(* method does before it first uses a handle, it does as on an open file.  *)
(***************************************************************************)
close ==
    /\ closed' = TRUE
    /\ last' = Call("close", None, None, None, IF closed THEN "ValueError" ELSE "")
    /\ UNCHANGED <<fid, reg, linkof, written, ratlog>>

\* read: the first statement that touches a band is a read of its dataset
closed_read(r, bands, window) ==
    LET seq == IF bands.kind = "none" THEN [b \in 1 .. r.count |-> b] ELSE bands.b
    IN  IF seq = <<>> THEN Return(<<>>)
        ELSE IF seq[1] \notin DOMAIN r.band_datasets THEN Raise("KeyError")
        ELSE Raise("ValueError")

\* read_mask, sequence branch: a band with a mask handle or a sentinel is
\* read from the file; a band with neither only fills the array
RECURSIVE closed_read_mask_loop(_, _, _, _, _)
closed_read_mask_loop(r, bands, window, i, mask) ==
    IF i > Len(bands) THEN Return(mask)
    ELSE IF bands[i] \notin DOMAIN r.mask_datasets THEN Raise("KeyError")
    ELSE IF r.mask_datasets[bands[i]] THEN Raise("ValueError")
    ELSE IF r.no_data[bands[i]] = None
    THEN closed_read_mask_loop(r, bands, window, i + 1, fill(mask, window, 255))
    ELSE closed_read(r, BandArg(bands[i]), window)

closed_read_mask(r, bands, window) ==
    IF bands.kind = "int" THEN Raise("UnboundLocalError")
    ELSE closed_read_mask_loop(
             r, IF bands.kind = "none" THEN [b \in 1 .. r.count |-> b] ELSE bands.b,
             window, 1,
             [j \in 1 .. Len(IF bands.kind = "none" THEN [b \in 1 .. r.count |-> b]
                             ELSE bands.b) |-> [p \in WinPix(window) |-> 0]])

\* read_rat: the band and column tests use the registry only; a column is
\* read from its dataset
closed_read_rat(r, band, columns) ==
    IF band \notin 1 .. r.count THEN Raise("IndexError")
    ELSE IF band \notin DOMAIN r.rat_lookup THEN Raise("KeyError")
    ELSE IF columns = None
    THEN IF DOMAIN r.rat_lookup[band] = {} THEN Raise("UnboundLocalError")
         ELSE Raise("ValueError")
    ELSE IF ~(Range(columns[1]) \subseteq Range(r.rat_column_names[band]))
    THEN Raise("IndexError")
    ELSE IF columns[1] = <<>> THEN Return(<<>>)
    ELSE IF columns[1][1] \notin DOMAIN r.rat_lookup[band] THEN Raise("KeyError")
    ELSE Raise("ValueError")

\* write: the tests on bands and data, then the first dataset assignment
closed_write(f, r, data, bands, window) ==
    IF write_apply(f, r, data, bands, window).err # ""
    THEN write_apply(f, r, data, bands, window).err
    ELSE "ValueError"

\* write_mask: the tests, then mdsets[band][...] of the first band: None has
\* no items, a handle is of a closed file
closed_write_mask(f, r, data, bands, window) ==
    IF \/ data.dtype # "bool"
       \/ ~(Range(bands.b) \subseteq DOMAIN r.band_datasets)
       \/ bands.kind = "seq" /\ (data.ndim # 3 \/ Len(data.planes) # Len(bands.b))
    THEN "TypeError"
    ELSE IF ~r.mask_datasets[bands.b[1]] THEN "TypeError"
    ELSE "ValueError"

\* write_rat: the tests on band and usage, then bnd_grp['ATT/HEADER']
closed_write_rat(f, r, T, band, usage) ==
    IF band \notin 1 .. r.count THEN "TypeError"
    ELSE IF usage # None /\ ~(DOMAIN usage[1] \subseteq ColumnNames(T)) THEN "IndexError"
    ELSE "ValueError"

\* create_mask_dataset: the band test, the warning for a mask the registry
\* has, then bgroup.create_dataset
closed_create_mask_dataset(r, band) ==
    IF band \notin DOMAIN r.band_datasets THEN "TypeError"
    ELSE IF r.mask_datasets[band] THEN "warning"
    ELSE "ValueError"

\* add_image_band: the link test, then self._fid.create_group
closed_add_image_band(r, link) ==
    IF link # None /\ link[1] \notin DOMAIN r.band_datasets THEN "TypeError"
    ELSE "ValueError"

\* A call on the closed object: the registry and the container are as they
\* were, and the call's outcome is recorded.
closed_call(bandargs, windows, bandset, links, columnargs) ==
    /\ closed
    /\ \/ \E bands \in bandargs, window \in windows :
             \/ last' = Call("read", bands, window, None,
                             closed_read(reg, bands, window).err)
             \/ last' = Call("read_mask", bands, window, None,
                             closed_read_mask(reg, bands, window).err)
             \/ \E data \in Arrays(bands, window, Vals, "uint8") :
                   last' = Call("write", bands, window, None,
                                closed_write(fid, reg, data, bands, window))
             \/ \E data \in Arrays(bands, window, BOOLEAN, "bool") :
                   last' = Call("write_mask", bands, window, None,
                                closed_write_mask(fid, reg, data, bands, window))
       \/ \E band \in bandset :
             \/ \E columns \in columnargs :
                   last' = Call("read_rat", BandArg(band), None, columns,
                                closed_read_rat(reg, band, columns).err)
             \/ \E T \in Tables(1, 1 .. MaxCols, {MaxRows}) :
                   last' = Call("write_rat", BandArg(band), None, None,
                                closed_write_rat(fid, reg, T, band, None))
             \/ last' = Call("create_mask_dataset", BandArg(band), None, None,
                             closed_create_mask_dataset(reg, band))
       \/ \E link \in links :
             last' = Call("add_image_band", link, None, DefaultDType,
                          closed_add_image_band(reg, link))
    /\ UNCHANGED <<fid, reg, closed, linkof, written, ratlog>>

ColumnArgs == {None, Some(<<>>), Some(<<"a">>)}

InitClosed == InitWith({"uint8"}, Sentinels, {None}, {ZeroPlane})

NextClosed ==
    \/ ~closed /\ add_image_band(MaxBands, {"uint8"}, Sentinels, LinkArgs(MaxBands))
    \/ ~closed /\ create_mask_dataset(BandIdx)
    \/ close
    \/ closed_call(BandArgs, WindowArgs, BandIdx, LinkArgs(MaxBands), ColumnArgs)

SpecClosed == InitClosed /\ [][NextClosed]_vars

\* C15: once close() has run, closed stays true, and every later read,
\* read_mask, read_rat, write, write_mask, write_rat, create_mask_dataset and
\* add_image_band call raises, returning nothing and changing nothing,
\* whatever bands it names and whatever masks and sentinels the bands have.
C15_ClosedIsTerminal ==
    [][closed => /\ closed'
                 /\ fid' = fid
                 /\ reg' = reg
                 /\ last'.err \notin {"", "warning"}]_vars

\* C16: read_rat(band) with no column subset returns, for every band: the
\* empty frame for a band that was never given a table, and all the columns
\* of the table for a band given one, whichever categories the table uses.
C16_AbsentCategoriesDecode ==
    \A b \in 1 .. reg.count :
        b \in DOMAIN reg.rat_lookup
        => /\ Len(ratlog[b]) = 0
                => read_rat(fid, reg, b, None, 0, None) = Return(<<>>)
           /\ (Len(ratlog[b]) = 1 /\ ratlog[b][1].err = "")
                => read_rat(fid, reg, b, None, 0, None)
                       = Return(Frame(ratlog[b][1].T, AllColumns(ratlog[b][1].T), 0,
                                      ratlog[b][1].T.nrows))

(***************************************************************************)
(* Validation: write and write_mask are called with arrays of every        *)
(* number of dimensions, plane count and element type, for band sequences  *)
(* that may name a band the container does not hold.                       *)
(***************************************************************************)
\* (ndim, shape[0]) of the arrays passed: a 2D array, or a 3D array of 1 to
\* MaxBands + 1 planes, for a band sequence; a 2D array for one band index.
Shapes(bands) ==
    IF bands.kind = "seq"
    THEN {<<2, 1>>} \cup {<<3, n>> : n \in 1 .. MaxBands + 1}
    ELSE {<<2, 1>>}

\* The arrays of these element types whose every element is set
ShapedArrays(bands, window, dtypes) ==
    {[dtype |-> dt,
      ndim |-> sh[1],
      planes |-> [i \in 1 .. sh[2] |->
                     [p \in WinPix(window) |-> IF dt = "bool" THEN TRUE ELSE 1]]] :
        dt \in dtypes, sh \in Shapes(bands)}

write_shaped(bandargs, windows) ==
    \E bands \in bandargs, window \in windows :
        \E data \in ShapedArrays(bands, window, {"uint8"}) :
            write_call(data, bands, window)

write_mask_shaped(bandargs, windows) ==
    \E bands \in bandargs, window \in windows :
        \E data \in ShapedArrays(bands, window, {"bool", "uint8"}) :
            write_mask_call(data, bands, window)

\* The whole plane and the window of its last pixel
PlaneOrWindow == {None, Some(<<<<0, Height>>, <<Width - 1, Width>>>>)}

InitValid == InitWith({"uint8"}, {None}, {None}, {ZeroPlane})

NextValid ==
    \/ add_image_band(MaxBands, {"uint8"}, {None}, {None})
    \/ create_mask_dataset(BandIdx)
    \/ write_shaped(BandArgs, PlaneOrWindow)
    \/ write_mask_shaped(BandArgs, PlaneOrWindow)

SpecValid == InitValid /\ [][NextValid]_vars

\* A multi-band call whose array is not 3-dimensional, whose first dimension
\* is not the number of bands asked for, or that names a band outside 1..count
IllFormed(data, bands) ==
    /\ bands.kind = "seq"
    /\ \/ data.ndim # 3
       \/ Len(data.planes) # Len(bands.b)
       \/ ~(Range(bands.b) \subseteq 1 .. reg.count)

\* C17: a write_mask call whose array is not boolean, and a multi-band write
\* or write_mask call whose array is not 3-dimensional, whose first dimension
\* is not the number of bands, or that names a band outside 1..count, fails
\* and leaves the file, the data and the mask of every band included, as it
\* was.
C17_ValidationPrecedesIO ==
    [][/\ last'.op = "write" =>
             \A data \in ShapedArrays(last'.band, last'.window, {"uint8"}) :
                 (IllFormed(data, last'.band)
                     /\ write_call(data, last'.band, last'.window))
                 => (last'.err = "TypeError" /\ fid' = fid /\ reg' = reg)
       /\ last'.op = "write_mask" =>
             \A data \in ShapedArrays(last'.band, last'.window, {"bool", "uint8"}) :
                 ((data.dtype # "bool" \/ IllFormed(data, last'.band))
                     /\ write_mask_call(data, last'.band, last'.window))
                 => (last'.err = "TypeError" /\ fid' = fid /\ reg' = reg)]_vars

\* Both bands have a mask, nothing of them is painted, and a write_mask call
\* for the two of them has just been refused: its array was ill-formed.
C17_Witness ==
    /\ last.op = "write_mask"
    /\ last.err = "TypeError"
    /\ last.band.kind = "seq"
    /\ last.band.b = <<1, 2>>
    /\ reg.count = 2
    /\ reg.mask_datasets = <<TRUE, TRUE>>
    /\ fid.BAND[1].MASK = Some([p \in Pix |-> 0])
    /\ fid.BAND[2].MASK = Some([p \in Pix |-> 0])

(***************************************************************************)
(* Header records: tables are written with a usage mapping, or with none.  *)
(***************************************************************************)
\* usage: None, or a dict from names to a tag; "c" is never a column name
UsageArgs ==
    {None} \cup {Some([n \in S |-> "PixelCount"]) : S \in SUBSET {"a", "c"}}

InitHeader == InitWith({"uint8"}, {None}, {None}, {ZeroPlane})

NextHeader ==
    \/ add_image_band(MaxBands, {"uint8"}, {None}, {None})
    \/ write_rat(BandIdx, 1 .. MaxCols, {MaxRows}, UsageArgs, MaxRatWrites)

SpecHeader == InitHeader /\ [][NextHeader]_vars

\* The header records a table has, each named by its category and its place
\* in the category's HEADER dataset: those of the categories the SIZE summary
\* counts columns for.
RecordIds(att) ==
    UNION {{<<cat, j>> : j \in DOMAIN att.HEADER[cat][1]} :
           cat \in {k \in RatCats : att.SIZE[k + 2] > 0 /\ att.HEADER[k] # None}}

Rec(att, id) == att.HEADER[id[1]][1][id[2]]

\* The number of columns of T before its i-th that are of the i-th's category
Before(T, i) ==
    Cardinality({j \in 1 .. (i - 1) :
                    NumpyRatTypes(T.cols[j].dtype) = NumpyRatTypes(T.cols[i].dtype)})

InCategory(T, cat) ==
    Cardinality({i \in DOMAIN T.cols : NumpyRatTypes(T.cols[i].dtype) = cat})

HeaderRecordsOf(att, T, usage) ==
    /\ \A i \in DOMAIN T.cols :
          LET ids == {id \in RecordIds(att) : Rec(att, id).NAME = T.cols[i].name}
          IN  /\ Cardinality(ids) = 1
              /\ \A id \in ids :
                    /\ id[1] = NumpyRatTypes(T.cols[i].dtype)
                    /\ Rec(att, id).USAGE =
                           IF usage # None /\ T.cols[i].name \in DOMAIN usage[1]
                           THEN usage[1][T.cols[i].name] ELSE "Generic"
                    /\ Rec(att, id).INDEX = Before(T, i)
                    /\ Rec(att, id).COLNUM = i - 1
    /\ Cardinality(RecordIds(att)) = Len(T.cols)
    /\ {Rec(att, id).COLNUM : id \in RecordIds(att)} = 0 .. (Len(T.cols) - 1)
    /\ att.SIZE = <<T.nrows, InCategory(T, 0), InCategory(T, 1),
                    InCategory(T, 2), InCategory(T, 3)>>

C19_MaterializedMask ==
    [][(last'.op = "create_mask_dataset" /\ last'.band.b[1] \in 1 .. reg.count) =>
          IF ~reg.mask_datasets[last'.band.b[1]]
          THEN /\ reg'.mask_datasets[last'.band.b[1]]
               /\ fid'.BAND[last'.band.b[1]].MASK = Some([p \in Pix |-> 0])
               /\ fid'.BAND[last'.band.b[1]].MASKCHUNKS
                      = Some(fid.CHUNKS[fid.BAND[last'.band.b[1]].DATA])
               /\ \A c \in (1 .. reg.count) \ {last'.band.b[1]} :
                      /\ reg'.mask_datasets[c] = reg.mask_datasets[c]
                      /\ fid'.BAND[c].MASK = fid.BAND[c].MASK
               /\ \A bs \in BandSeqs : \A w \in WindowArgs :
                      Range(bs) \subseteq 1 .. reg.count =>
                          \A i \in 1 .. Len(bs) :
                              bs[i] = last'.band.b[1] =>
                                  /\ read_mask(fid', reg', SeqArg(bs), w).err = ""
                                  /\ read_mask(fid', reg', SeqArg(bs), w).val[i]
                                         = [p \in WinPix(w) |-> 0]
          ELSE last'.err = "warning" /\ fid' = fid /\ reg' = reg]_vars

====
